---- MODULE Spec2Model ----
(***************************************************************************)
(* guff: one run of the command-line program src/guff.ts, from argument    *)
(* parsing to process exit.  The run is a straight-line script; every      *)
(* action below is one step of it, and the choices of the environment (the *)
(* command line, the installed tools, the providers' answers, the output   *)
(* of the generated script, the image the provider returns, failures of    *)
(* raster and file operations) are drawn with \E where the code reads      *)
(* them.                                                                   *)
(***************************************************************************)
EXTENDS Integers, Sequences, FiniteSets, TLC

\* ------------------------------------------------------------------ bounds
\* largest value of --frames for which a whole run is followed
MaxFramesArg == 9
\* largest width and height of the image the provider returns
MaxImg == 12
\* longest JSON array the generated script prints
MaxScriptLen == 3
MaxGrid == 7
MaxScale == 3
MaxAspect == 3
MaxCells == 2
MaxTrim == 2

\* ------------------------------------------------------- program constants
MinFrames == 2
MaxFrames == 64
\* upper limit of the upward search for an alternative frame count
SuggestMax == 16
\* a single-row grid is accepted up to this many columns
MaxStripCols == 3
\* inset of the extracted region, in percent of the cell
InsetPercent == 3

\* value of proc.exitCode when the child was killed (timeout): null
Null == -1

ASPECT_RATIOS ==
  << [label |-> "1:1",  num |-> 1,  den |-> 1],
     [label |-> "16:9", num |-> 16, den |-> 9],
     [label |-> "9:16", num |-> 9,  den |-> 16],
     [label |-> "4:3",  num |-> 4,  den |-> 3],
     [label |-> "3:4",  num |-> 3,  den |-> 4] >>

\* the providers of the PROVIDERS table
PROVIDERS == {"gemini", "claude"}

\* values of --model's provider part that are tried
ProviderArgs == PROVIDERS \cup {"openai"}

\* values of --aspect that are tried, as <<W, H>>
AspectArgs == { <<1, 1>>, <<2, 1>>, <<3, 4>> }

\* ----------------------------------------------------------------- helpers
Max(a, b) == IF a >= b THEN a ELSE b
Min(a, b) == IF a <= b THEN a ELSE b

\* Math.round(p / q) for p >= 0, q > 0: the nearest integer, halves upward
RoundDiv(p, q) == (2 * p + q) \div (2 * q)

\* ------------------------------------------------------ Grid Layout Planner
RECURSIVE gridScan(_, _, _)
gridScan(n, r, best) ==
  IF r * r <= n
    THEN gridScan(n, r + 1,
                  IF n % r = 0 THEN [cols |-> n \div r, rows |-> r] ELSE best)
    ELSE best

\* the first divisor found wins instead of the last
gridLayoutFirstDivisor(n) ==
  LET ds == { r \in 2..n : r * r <= n /\ n % r = 0 }
  IN  IF ds = {} THEN [cols |-> n, rows |-> 1]
      ELSE LET r == CHOOSE d \in ds : \A e \in ds : d <= e
           IN  [cols |-> n \div r, rows |-> r]

gridLayout(n) == gridScan(n, 2, [cols |-> n, rows |-> 1])

\* the test both suggestion loops apply to a candidate count
Suggestable(n) == gridLayout(n).rows > 1 \/ n <= MaxStripCols

RECURSIVE suggestBelow(_)
suggestBelow(n) ==
  IF n >= MinFrames
    THEN IF Suggestable(n) THEN <<n>> ELSE suggestBelow(n - 1)
    ELSE <<>>

\* the upward search runs down from the bound: the farthest count wins
suggestAboveFarthest(n) ==
  LET c == { m \in n..SuggestMax : Suggestable(m) }
  IN  IF c = {} THEN <<>>
      ELSE << CHOOSE m \in c : \A k \in c : k <= m >>

RECURSIVE suggestAbove(_)
suggestAbove(n) ==
  IF n <= SuggestMax
    THEN IF Suggestable(n) THEN <<n>> ELSE suggestAbove(n + 1)
    ELSE <<>>

suggestFor(n) == suggestBelow(n - 1) \o suggestAbove(n + 1)

\* |v - target| as a fraction: the distance is taken on the linear scale
LinearDist(vn, vd, tn, td) ==
  LET a == vn * td
      b == vd * tn
  IN  << Max(a, b) - Min(a, b), vd * td >>

\* |ln(v / target)| as the fraction max(v/t, t/v) = <<hi, lo>>; lo = 0 is
\* Infinity.  v = vn/vd, target = tn/td.
LogDist(vn, vd, tn, td) ==
  LET a == vn * td
      b == vd * tn
  IN  << Max(a, b), Min(a, b) >>

\* d1 < d2 on such fractions
DistLess(d1, d2) == d1[1] * d2[2] < d2[1] * d1[2]

RECURSIVE aspectScan(_, _, _, _, _)
aspectScan(i, tn, td, best, bestDist) ==
  IF i > Len(ASPECT_RATIOS) THEN best
  ELSE LET r    == ASPECT_RATIOS[i]
           dist == LogDist(r.num, r.den, tn, td)
       IN  IF DistLess(dist, bestDist)
             THEN aspectScan(i + 1, tn, td, r, dist)
             ELSE aspectScan(i + 1, tn, td, best, bestDist)

\* the sheet's shape is taken from its columns alone
bestAspectRatioOfColumns(cols, rows, frameAR) ==
  aspectScan(1, cols * frameAR[1], frameAR[2],
             ASPECT_RATIOS[1], <<1, 0>>).label

\* frameAR is <<W, H>>; target = cols * (W / H) / rows
bestAspectRatio(cols, rows, frameAR) ==
  aspectScan(1, cols * frameAR[1], rows * frameAR[2],
             ASPECT_RATIOS[1], <<1, 0>>).label

\* ------------------------------------------------------------------- state
VARIABLES
  pc,          \* the step of the script that runs next; "done" after exit
  exitCode,    \* the process's exit status; Null while it runs
  trace,       \* diagnostics printed and external calls made, in order
  numFrames,   \* --frames after validation
  provider,    \* the provider part of --model
  frameAR,     \* --aspect as <<W, H>>
  debug,       \* --debug
  plan,        \* cols, rows of gridLayout(numFrames) and the aspect label
  suggest,     \* the alternative counts printed on rejection
  proc,        \* exit status and standard output of the generated script
  svgs,        \* what executeFrameScript returned
  scriptFile,  \* the temporary file of the generated script exists
  img,         \* width and height of the provider's image
  frames,      \* the frames the provider function returned
  tmpDir,      \* the per-run frame directory exists
  frameFiles,  \* the per-frame files written into it, in order
  outputFile,  \* the output artifact exists
  pending,     \* an exception is propagating through the finally block
  geom,        \* the grid geometry the slicer computed from the image
  aspect,      \* a call of bestAspectRatio on its own: arguments and result
  recon        \* the frame reconciler of the multi-pass variant

vars == << pc, exitCode, trace, numFrames, provider, frameAR, debug, plan,
           suggest, proc, svgs, scriptFile, img, frames, tmpDir, frameFiles,
           outputFile, pending, geom, aspect, recon >>

NoPlan == [cols |-> 0, rows |-> 0, aspectRatio |-> ""]
NoProc == [exitCode |-> 0, kind |-> "none", items |-> <<>>]
NoImg  == [w |-> 0, h |-> 0]
NoGeom ==
  [detectedRows |-> 0, actualRows |-> 0, frameW |-> 0, frameH |-> 0,
   insetX |-> 0, insetY |-> 0, cols |-> 0]
NoAspect == [cols |-> 0, rows |-> 0, k |-> 0, ar |-> <<0, 0>>,
             label |-> "", scaled |-> ""]
NoRecon ==
  [pc |-> "off", rawFrames |-> <<>>, trimmed |-> <<>>, maxTrimW |-> 0,
   maxTrimH |-> 0, composited |-> <<>>, frames |-> <<>>, ops |-> <<>>]

Ev(name, arg) == [ev |-> name, arg |-> arg]
Has(name) == \E i \in 1..Len(trace) : trace[i].ev = name
Index(name) == CHOOSE i \in 1..Len(trace) : trace[i].ev = name

Init ==
  /\ pc = "args"
  /\ exitCode = Null
  /\ trace = <<>>
  /\ numFrames = 0
  /\ provider = ""
  /\ frameAR = <<0, 0>>
  /\ debug = FALSE
  /\ plan = NoPlan
  /\ suggest = <<>>
  /\ proc = NoProc
  /\ svgs = <<>>
  /\ scriptFile = FALSE
  /\ img = NoImg
  /\ frames = <<>>
  /\ tmpDir = FALSE
  /\ frameFiles = <<>>
  /\ outputFile = FALSE
  /\ pending = FALSE
  /\ geom = NoGeom
  /\ aspect = NoAspect
  /\ recon = NoRecon

\* process.exit(code) after printing msg: nothing else of the script runs
Exit(code, msg, arg) ==
  /\ pc' = "done"
  /\ exitCode' = code
  /\ trace' = Append(trace, Ev(msg, arg))

\* an exception nobody catches ends the process with status 1
Crash(what) ==
  /\ pc' = "done"
  /\ exitCode' = 1
  /\ trace' = Append(trace, Ev("uncaught: " \o what, 0))

\* the step succeeded: note it and go on
Step(next, what) ==
  /\ pc' = next
  /\ exitCode' = exitCode
  /\ trace' = Append(trace, Ev(what, 0))

\* ------------------------------------------------------------ the arguments
\* the first check of the script that the command line fails, "" if none
ArgError(a) ==
  IF a.help THEN "usage"
  ELSE IF ~a.hasPrompt THEN "Error: prompt is required"
  ELSE IF a.framesNaN \/ a.frames < MinFrames \/ a.frames > MaxFrames
         THEN "Error: frames must be between 2 and 64"
  ELSE IF ~a.delayOk THEN "Error: delay must be between 10 and 10000 ms"
  ELSE IF ~a.sizeOk THEN "Error: size must be in WxH format"
  ELSE IF a.provider \notin PROVIDERS THEN "Error: unsupported provider"
  ELSE IF ~a.resOk THEN "Error: unknown resolution"
  ELSE IF ~a.tempOk THEN "Error: temperature must be between 0.0 and 2.0"
  ELSE IF ~a.colorsOk THEN "Error: colors must be between 2 and 256"
  ELSE IF ~a.aspectOk THEN "Error: aspect must be in W:H format"
  ELSE ""

\* the script from parseArgs to the parse of --aspect, the value of --frames
\* being one of F
ParseArgsOf(F) ==
  /\ pc = "args"
  /\ \E help, hasPrompt, framesNaN, delayOk, sizeOk, resOk, tempOk, colorsOk,
        aspectOk, dbg \in BOOLEAN,
        f \in F, prov \in ProviderArgs, ar \in AspectArgs :
       LET e == ArgError([help |-> help, hasPrompt |-> hasPrompt,
                          framesNaN |-> framesNaN, frames |-> f,
                          delayOk |-> delayOk, sizeOk |-> sizeOk,
                          provider |-> prov, resOk |-> resOk,
                          tempOk |-> tempOk, colorsOk |-> colorsOk,
                          aspectOk |-> aspectOk])
       IN  IF e = "usage"
             THEN /\ Exit(0, e, 0)
                  /\ UNCHANGED << numFrames, provider, frameAR, debug >>
           ELSE IF e # ""
             THEN /\ Exit(1, e, 0)
                  /\ UNCHANGED << numFrames, provider, frameAR, debug >>
           ELSE /\ Step("gifsicle", "args valid")
                /\ numFrames' = f
                /\ provider' = prov
                /\ frameAR' = ar
                /\ debug' = dbg
  /\ UNCHANGED << geom, aspect, recon >>
  /\ UNCHANGED << plan, suggest, proc, svgs, scriptFile, img, frames, tmpDir,
                  frameFiles, outputFile, pending >>

\* a whole run is followed for the small values of --frames
ParseArgs == ParseArgsOf(0..MaxFramesArg)

\* planning is followed for every value the code accepts, and one more
ParseAnyFrames == ParseArgsOf(0..(MaxFrames + 1))

\* execFileSync("gifsicle", ["--version"]) in try/catch
CheckGifsicle ==
  /\ pc = "gifsicle"
  /\ \E found \in BOOLEAN :
       IF found THEN Step("plan", "gifsicle found")
       ELSE Exit(1, "Error: gifsicle is required but not found", 0)
  /\ UNCHANGED << geom, aspect, recon >>
  /\ UNCHANGED << numFrames, provider, frameAR, debug, plan, suggest, proc,
                  svgs, scriptFile, img, frames, tmpDir, frameFiles,
                  outputFile, pending >>

\* the single long row is refused whoever the provider is
GridRejectedAnyProvider(prov, layout) ==
  layout.rows = 1 /\ layout.cols > MaxStripCols

\* the grid policy: who is rejected
GridRejected(prov, layout) ==
  prov = "gemini" /\ layout.rows = 1 /\ layout.cols > MaxStripCols

\* gridLayout, the grid validation and bestAspectRatio
PlanGrid ==
  /\ pc = "plan"
  /\ LET layout == gridLayout(numFrames)
     IN  /\ plan' = [cols |-> layout.cols, rows |-> layout.rows,
                     aspectRatio |->
                       IF GridRejected(provider, layout) THEN ""
                       ELSE bestAspectRatio(layout.cols, layout.rows, frameAR)]
         /\ IF GridRejected(provider, layout)
              THEN /\ suggest' = suggestFor(numFrames)
                   /\ Exit(1, "Error: frames can't form a clean grid",
                           numFrames)
              ELSE /\ suggest' = suggest
                   /\ Step("inputs", "grid accepted")
  /\ UNCHANGED << geom, aspect, recon >>
  /\ UNCHANGED << numFrames, provider, frameAR, debug, proc, svgs, scriptFile,
                  img, frames, tmpDir, frameFiles, outputFile, pending >>

\* the loop over --input files
LoadInputImages ==
  /\ pc = "inputs"
  /\ \E r \in {"ok", "Error: input file not found",
               "Error: unsupported image format"} :
       IF r = "ok" THEN Step("key", "Generating animation...")
       ELSE Exit(1, r, 0)
  /\ UNCHANGED << geom, aspect, recon >>
  /\ UNCHANGED << numFrames, provider, frameAR, debug, plan, suggest, proc,
                  svgs, scriptFile, img, frames, tmpDir, frameFiles,
                  outputFile, pending >>

\* ------------------------------------------- the procedural (claude) path
\* the request is made whether or not the credential is set
ClaudeKeyUnchecked ==
  /\ pc = "key"
  /\ provider = "claude"
  /\ Step("fetch", "api key not checked")
  /\ UNCHANGED << geom, aspect, recon >>
  /\ UNCHANGED << numFrames, provider, frameAR, debug, plan, suggest, proc,
                  svgs, scriptFile, img, frames, tmpDir, frameFiles,
                  outputFile, pending >>

\* generateClaude: the credential check that opens the function
ClaudeKey ==
  /\ pc = "key"
  /\ provider = "claude"
  /\ \E hasKey \in BOOLEAN :
       IF hasKey THEN Step("fetch", "api key present")
       ELSE Exit(1, "Error: API key environment variable is required", 0)
  /\ UNCHANGED << geom, aspect, recon >>
  /\ UNCHANGED << numFrames, provider, frameAR, debug, plan, suggest, proc,
                  svgs, scriptFile, img, frames, tmpDir, frameFiles,
                  outputFile, pending >>

\* what the script does after the provider answered r
AfterFetch(r, okResponse, next) ==
  IF r = "throws" THEN "uncaught: fetch"
  ELSE IF r = okResponse THEN next
  ELSE r

\* generateClaude: the request, the status check, the text block, extractCode
ClaudeFetch ==
  /\ pc = "fetch"
  /\ provider = "claude"
  /\ \E r \in {"throws", "Error: API returned an error status",
               "Error: no text in Claude API response",
               "Error: could not extract code from Claude's response",
               "code"} :
       LET to == AfterFetch(r, "code", "script")
       IN  /\ pc' = IF to = "script" THEN "script" ELSE "done"
           /\ exitCode' = IF to = "script" THEN exitCode ELSE 1
           /\ trace' = trace \o << Ev("fetch", 0), Ev(to, 0) >>
  /\ UNCHANGED << geom, aspect, recon >>
  /\ UNCHANGED << numFrames, provider, frameAR, debug, plan, suggest, proc,
                  svgs, scriptFile, img, frames, tmpDir, frameFiles,
                  outputFile, pending >>

\* the elements a printed array may hold: strings are sequences of tokens,
\* " " is white space
SvgDoc    == [isString |-> TRUE,  text |-> << "<svg", "/>" >>]
PaddedSvg == [isString |-> TRUE,  text |-> << " ", "<svg", "/>", " " >>]
Prose     == [isString |-> TRUE,  text |-> << "x", "<svg", "/>" >>]
Number42  == [isString |-> FALSE, text |-> << >>]
Elements  == { SvgDoc, PaddedSvg, Prose, Number42 }

Arrays == UNION { [1..m -> Elements] : m \in 0..MaxScriptLen }

\* what the child process can do: exit status (Null: killed on timeout) and
\* standard output (no JSON, JSON that is no array, a JSON array)
ProcOutcomes ==
  { [exitCode |-> c, kind |-> k, items |-> <<>>] :
      c \in {0, 1, Null}, k \in {"garbage", "scalar"} }
  \cup { [exitCode |-> c, kind |-> "array", items |-> a] :
           c \in {0, 1, Null}, a \in Arrays }

\* String.prototype.trim
RECURSIVE trimStart(_)
trimStart(s) == IF s # <<>> /\ Head(s) = " " THEN trimStart(Tail(s)) ELSE s
RECURSIVE trimEnd(_)
trimEnd(s) ==
  IF s # <<>> /\ s[Len(s)] = " " THEN trimEnd(SubSeq(s, 1, Len(s) - 1)) ELSE s
trim(s) == trimEnd(trimStart(s))

startsWithSvg(s) == s # <<>> /\ Head(s) = "<svg"

\* the test without the trim
isSvgStringUntrimmed(e) == e.isString /\ startsWithSvg(e.text)

\* typeof svgs[i] === "string" && svgs[i].trim().startsWith("<svg")
isSvgString(e) == e.isString /\ startsWithSvg(trim(e.text))

\* the validation loop: the 0-based index it stops at, Len(items) if none
RECURSIVE firstInvalid(_, _)
firstInvalid(items, i) ==
  IF i < Len(items)
    THEN IF ~isSvgString(items[i + 1]) THEN i ELSE firstInvalid(items, i + 1)
    ELSE i

\* the standard output is used although the child failed
scriptResultIgnoringExit(p, n) ==
  IF p.kind = "garbage"
    THEN [err |-> "Error: generated code did not output valid JSON",
          idx |-> 0, warn |-> FALSE, svgs |-> <<>>]
  ELSE IF p.kind # "array" \/ Len(p.items) = 0
    THEN [err |-> "Error: expected array of SVG strings",
          idx |-> 0, warn |-> FALSE, svgs |-> <<>>]
  ELSE IF firstInvalid(p.items, 0) < Len(p.items)
    THEN [err |-> "Error: frame is not a valid SVG string",
          idx |-> firstInvalid(p.items, 0), warn |-> Len(p.items) # n,
          svgs |-> <<>>]
  ELSE [err |-> "", idx |-> 0, warn |-> Len(p.items) # n, svgs |-> p.items]

\* a count mismatch is treated as an error
scriptResultStrictCount(p, n) ==
  LET r == scriptResultIgnoringExit(p, n)
  IN  IF p.exitCode # 0
        THEN [err |-> "Error: generated code failed", idx |-> 0,
              warn |-> FALSE, svgs |-> <<>>]
      ELSE IF r.err = "" /\ r.warn
        THEN [err |-> "Error: expected array of SVG strings", idx |-> 0,
              warn |-> FALSE, svgs |-> <<>>]
      ELSE r

\* executeFrameScript from the exit-status check to the return: the error it
\* exits with ("" if none), the index named in it, whether the count warning
\* was printed, and the frames returned
scriptResult(p, n) ==
  IF p.exitCode # 0
    THEN [err |-> "Error: generated code failed", idx |-> 0,
          warn |-> FALSE, svgs |-> <<>>]
  ELSE IF p.kind = "garbage"
    THEN [err |-> "Error: generated code did not output valid JSON",
          idx |-> 0, warn |-> FALSE, svgs |-> <<>>]
  ELSE IF p.kind # "array" \/ Len(p.items) = 0
    THEN [err |-> "Error: expected array of SVG strings",
          idx |-> 0, warn |-> FALSE, svgs |-> <<>>]
  ELSE IF firstInvalid(p.items, 0) < Len(p.items)
    THEN [err |-> "Error: frame is not a valid SVG string",
          idx |-> firstInvalid(p.items, 0), warn |-> Len(p.items) # n,
          svgs |-> <<>>]
  ELSE [err |-> "", idx |-> 0, warn |-> Len(p.items) # n, svgs |-> p.items]

\* executeFrameScript: write the script, run it, check what it printed.
\* process.exit(1) inside the try block ends the process at once: the
\* finally block (rmSync of the script) runs on the return path only.
ExecuteFrameScript ==
  /\ pc = "script"
  /\ \E p \in ProcOutcomes :
       LET r == scriptResult(p, numFrames)
           w == IF r.warn THEN << Ev("Warning: got frames", Len(p.items)) >>
                ELSE << >>
       IN  /\ proc' = p
           /\ svgs' = r.svgs
           /\ IF r.err = ""
                THEN /\ pc' = "raster"
                     /\ exitCode' = exitCode
                     /\ trace' = trace \o << Ev("spawn", 0) >> \o w
                     /\ scriptFile' = debug
                ELSE /\ pc' = "done"
                     /\ exitCode' = 1
                     /\ trace' = trace \o << Ev("spawn", 0) >> \o w
                                       \o << Ev(r.err, r.idx) >>
                     /\ scriptFile' = TRUE
  /\ UNCHANGED << geom, aspect, recon >>
  /\ UNCHANGED << numFrames, provider, frameAR, debug, plan, suggest, img,
                  frames, tmpDir, frameFiles, outputFile, pending >>

\* generateClaude: each SVG is rasterized in turn; sharp may reject any
ConvertSvgs ==
  /\ pc = "raster"
  /\ \E failAt \in 0..Len(svgs) :
       IF failAt = 0
         THEN /\ frames' = [ i \in 1..Len(svgs) |->
                             [kind |-> "svg", idx |-> i - 1, src |-> svgs[i]] ]
              /\ Step("mkdir", "frames generated")
         ELSE /\ frames' = frames
              /\ Crash("sharp")
  /\ UNCHANGED << geom, aspect, recon >>
  /\ UNCHANGED << numFrames, provider, frameAR, debug, plan, suggest, proc,
                  svgs, scriptFile, img, tmpDir, frameFiles, outputFile,
                  pending >>

\* ------------------------------------------ the composite-image (grid) path
\* generateGemini: the credential check that opens the function
GeminiKey ==
  /\ pc = "key"
  /\ provider = "gemini"
  /\ \E hasKey \in BOOLEAN :
       IF hasKey THEN Step("fetch", "api key present")
       ELSE Exit(1, "Error: API key environment variable is required", 0)
  /\ UNCHANGED << geom, aspect, recon >>
  /\ UNCHANGED << numFrames, provider, frameAR, debug, plan, suggest, proc,
                  svgs, scriptFile, img, frames, tmpDir, frameFiles,
                  outputFile, pending >>

\* widths and heights of the provider's image that are tried: the small
\* ones, and the 256 of a 2 x 2 sheet of 128-pixel cells
ImgSizes == (1..MaxImg) \cup {256}

\* generateGemini: the request, the status check, the image part
GeminiFetch ==
  /\ pc = "fetch"
  /\ provider = "gemini"
  /\ \E r \in {"throws", "Error: API returned an error status",
               "Error: no image data in API response", "image"},
        w, h \in ImgSizes :
       LET to == AfterFetch(r, "image", "slice")
       IN  /\ pc' = IF to = "slice" THEN "slice" ELSE "done"
           /\ exitCode' = IF to = "slice" THEN exitCode ELSE 1
           /\ trace' = trace \o << Ev("fetch", 0), Ev(to, 0) >>
           /\ img' = IF to = "slice" THEN [w |-> w, h |-> h] ELSE img
  /\ UNCHANGED << geom, aspect, recon >>
  /\ UNCHANGED << numFrames, provider, frameAR, debug, plan, suggest, proc,
                  svgs, scriptFile, frames, tmpDir, frameFiles, outputFile,
                  pending >>

\* the cells are taken to be square whatever --aspect says
detectRowsSquareCells(imgW, imgH, cols, ar) == RoundDiv(imgH * cols, imgW)

\* Math.round(imgH / ((imgW / cols) / frameAR))
detectRows(imgW, imgH, cols, ar) ==
  RoundDiv(imgH * cols * ar[1], imgW * ar[2])

\* Math.max(1, Math.round(cell * 0.03))
inset(cell) == Max(1, RoundDiv(cell * InsetPercent, 100))

\* the requested rows are used whatever was detected
gridGeometryRequestedRows(imgW, imgH, cols, rows, ar) ==
  LET frameW == imgW \div cols
      frameH == imgH \div rows
  IN  [detectedRows |-> detectRows(imgW, imgH, cols, ar),
       actualRows |-> rows, frameW |-> frameW, frameH |-> frameH,
       insetX |-> inset(frameW), insetY |-> inset(frameH), cols |-> cols]

\* a detected count of 0 rows is taken as one row
gridGeometryAtLeastOneRow(imgW, imgH, cols, rows, ar) ==
  LET detectedRows == detectRows(imgW, imgH, cols, ar)
      actualRows   == Max(1, detectedRows)
      frameW       == imgW \div cols
      frameH       == imgH \div actualRows
  IN  [detectedRows |-> detectedRows, actualRows |-> actualRows,
       frameW |-> frameW, frameH |-> frameH,
       insetX |-> inset(frameW), insetY |-> inset(frameH), cols |-> cols]

\* drift detection and cell geometry.  With actualRows = 0 the code's frameH
\* and insetY are Infinity and no cell is ever extracted; 0 stands for them.
gridGeometry(imgW, imgH, cols, rows, ar) ==
  LET detectedRows == detectRows(imgW, imgH, cols, ar)
      actualRows   == IF detectedRows # rows THEN detectedRows ELSE rows
      frameW       == imgW \div cols
      frameH       == IF actualRows = 0 THEN 0 ELSE imgH \div actualRows
  IN  [detectedRows |-> detectedRows, actualRows |-> actualRows,
       frameW |-> frameW, frameH |-> frameH,
       insetX |-> inset(frameW),
       insetY |-> IF actualRows = 0 THEN 0 ELSE inset(frameH),
       cols |-> cols]

\* the argument of sharp's extract for the cell at (row, col)
region(g, row, col) ==
  [kind |-> "cell", row |-> row, col |-> col,
   left |-> col * g.frameW + g.insetX,
   top |-> row * g.frameH + g.insetY,
   width |-> g.frameW - g.insetX * 2,
   height |-> g.frameH - g.insetY * 2]

\* the slicing loops stop at the end of the grid only
RECURSIVE sliceWholeGrid(_, _, _, _, _)
sliceWholeGrid(g, n, row, col, acc) ==
  IF row < g.actualRows
    THEN IF col < g.cols
           THEN sliceWholeGrid(g, n, row, col + 1,
                               Append(acc, region(g, row, col)))
           ELSE sliceWholeGrid(g, n, row + 1, 0, acc)
    ELSE acc

\* the loops are nested the other way round: columns outside, rows inside
RECURSIVE sliceColumnsFirst(_, _, _, _, _)
sliceColumnsFirst(g, n, row, col, acc) ==
  IF col < g.cols /\ Len(acc) < n
    THEN IF row < g.actualRows /\ Len(acc) < n
           THEN sliceColumnsFirst(g, n, row + 1, col,
                                  Append(acc, region(g, row, col)))
           ELSE sliceColumnsFirst(g, n, 0, col + 1, acc)
    ELSE acc

\* the two nested slicing loops, entered at (row, col) with acc collected
RECURSIVE slice(_, _, _, _, _)
slice(g, n, row, col, acc) ==
  IF row < g.actualRows /\ Len(acc) < n
    THEN IF col < g.cols /\ Len(acc) < n
           THEN slice(g, n, row, col + 1, Append(acc, region(g, row, col)))
           ELSE slice(g, n, row + 1, 0, acc)
    ELSE acc

\* sharp accepts an extract area of positive size inside the image
extractable(r, imgW, imgH) ==
  /\ r.left >= 0 /\ r.top >= 0 /\ r.width > 0 /\ r.height > 0
  /\ r.left + r.width <= imgW
  /\ r.top + r.height <= imgH

\* generateGemini from the metadata read to the return: sharp may fail to
\* decode the payload or to resize; an extract area it rejects throws
SliceGrid ==
  /\ pc = "slice"
  /\ \E sharpOk \in BOOLEAN :
       LET g     == gridGeometry(img.w, img.h, plan.cols, plan.rows, frameAR)
           cells == slice(g, numFrames, 0, 0, <<>>)
           w     == IF g.detectedRows # plan.rows
                      THEN << Ev("Warning: detected rows", g.detectedRows) >>
                      ELSE << >>
       IN  IF sharpOk /\ \A i \in 1..Len(cells) :
                           extractable(cells[i], img.w, img.h)
             THEN /\ frames' = cells
                  /\ geom' = g
                  /\ pc' = "mkdir"
                  /\ exitCode' = exitCode
                  /\ trace' = trace \o w \o << Ev("frames generated", 0) >>
             ELSE /\ frames' = frames
                  /\ geom' = IF sharpOk THEN g ELSE geom
                  /\ pc' = "done"
                  /\ exitCode' = 1
                  /\ trace' = IF sharpOk
                                THEN trace \o w \o << Ev("uncaught: sharp", 0) >>
                                ELSE trace \o << Ev("uncaught: sharp", 0) >>
  /\ UNCHANGED << aspect, recon >>
  /\ UNCHANGED << numFrames, provider, frameAR, debug, plan, suggest, proc,
                  svgs, scriptFile, img, tmpDir, frameFiles, outputFile,
                  pending >>

\* ---------------------------------------------------------------- assembly
\* mkdirSync(tmpDir), before the try block
MakeTmpDir ==
  /\ pc = "mkdir"
  /\ \E ok \in BOOLEAN :
       IF ok THEN /\ tmpDir' = TRUE
                  /\ Step("write", "mkdir")
       ELSE /\ tmpDir' = tmpDir
            /\ Crash("mkdir")
  /\ UNCHANGED << geom, aspect, recon >>
  /\ UNCHANGED << numFrames, provider, frameAR, debug, plan, suggest, proc,
                  svgs, scriptFile, img, frames, frameFiles, outputFile,
                  pending >>

\* a frame whose write fails is left out and the encoder runs on the rest
WriteFrameFilesSkipping ==
  /\ pc = "write"
  /\ \E failAt \in 0..Len(frames) :
       LET k == IF failAt = 0 THEN Len(frames) ELSE failAt - 1
       IN  /\ frameFiles' = [ i \in 1..k |->
                               [name |-> i - 1, content |-> frames[i]] ]
           /\ pending' = FALSE
           /\ Step("encode", IF failAt = 0 THEN "frame files written"
                             ELSE "throws: sharp")
  /\ UNCHANGED << geom, aspect, recon >>
  /\ UNCHANGED << numFrames, provider, frameAR, debug, plan, suggest, proc,
                  svgs, scriptFile, img, frames, tmpDir, outputFile >>

\* the loop writing frame-i.gif; the write of any frame may throw
WriteFrameFiles ==
  /\ pc = "write"
  /\ \E failAt \in 0..Len(frames) :
       LET k == IF failAt = 0 THEN Len(frames) ELSE failAt - 1
       IN  /\ frameFiles' = [ i \in 1..k |->
                               [name |-> i - 1, content |-> frames[i]] ]
           /\ pending' = (failAt # 0)
           /\ Step(IF failAt = 0 THEN "encode" ELSE "finally",
                   IF failAt = 0 THEN "frame files written"
                   ELSE "throws: sharp")
  /\ UNCHANGED << geom, aspect, recon >>
  /\ UNCHANGED << numFrames, provider, frameAR, debug, plan, suggest, proc,
                  svgs, scriptFile, img, frames, tmpDir, outputFile >>

\* execFileSync("gifsicle", ...) throws when the encoder fails
RunGifsicle ==
  /\ pc = "encode"
  /\ \E ok \in BOOLEAN :
       /\ outputFile' = ok
       /\ pending' = ~ok
       /\ pc' = IF ok THEN "display" ELSE "finally"
       /\ exitCode' = exitCode
       /\ trace' = trace \o << [ev |-> "gifsicle", arg |-> Len(frameFiles),
                                files |-> frameFiles],
                               Ev(IF ok THEN "Saved" ELSE "throws: gifsicle",
                                  0) >>
  /\ UNCHANGED << geom, aspect, recon >>
  /\ UNCHANGED << numFrames, provider, frameAR, debug, plan, suggest, proc,
                  svgs, scriptFile, img, frames, tmpDir, frameFiles >>

\* displayInTerminal throws when the file cannot be read back or, on
\* ghostty, when its first frame cannot be converted
displayThrows(term, readOk, pngOk) ==
  ~readOk \/ (term = "ghostty" /\ ~pngOk)

\* await displayInTerminal(outputPath), inside the try block
DisplayInTerminal ==
  /\ pc = "display"
  /\ \E term \in {"iTerm.app", "ghostty", "xterm"}, readOk, pngOk \in BOOLEAN :
       /\ pending' = displayThrows(term, readOk, pngOk)
       /\ Step("finally",
               IF displayThrows(term, readOk, pngOk) THEN "throws: display"
               ELSE IF term = "xterm" THEN "not displayed" ELSE "displayed")
  /\ UNCHANGED << geom, aspect, recon >>
  /\ UNCHANGED << numFrames, provider, frameAR, debug, plan, suggest, proc,
                  svgs, scriptFile, img, frames, tmpDir, frameFiles,
                  outputFile >>

\* the cleanup runs on the normal way out of the try block only
CleanupOnSuccessOnly ==
  /\ pc = "finally"
  /\ tmpDir' = IF pending THEN tmpDir ELSE FALSE
  /\ frameFiles' = IF pending THEN frameFiles ELSE <<>>
  /\ pending' = FALSE
  /\ pc' = "done"
  /\ exitCode' = IF pending THEN 1 ELSE 0
  /\ trace' = Append(trace, Ev(IF pending THEN "uncaught: rethrown"
                               ELSE "end", 0))
  /\ UNCHANGED << geom, aspect, recon >>
  /\ UNCHANGED << numFrames, provider, frameAR, debug, plan, suggest, proc,
                  svgs, scriptFile, img, frames, outputFile >>

\* finally { rmSync(tmpDir, recursive, force) }, then the exception, if one
\* is propagating, ends the process; otherwise the script ends
Cleanup ==
  /\ pc = "finally"
  /\ tmpDir' = FALSE
  /\ frameFiles' = <<>>
  /\ pending' = FALSE
  /\ pc' = "done"
  /\ exitCode' = IF pending THEN 1 ELSE 0
  /\ trace' = Append(trace, Ev(IF pending THEN "uncaught: rethrown"
                               ELSE "end", 0))
  /\ UNCHANGED << geom, aspect, recon >>
  /\ UNCHANGED << numFrames, provider, frameAR, debug, plan, suggest, proc,
                  svgs, scriptFile, img, frames, outputFile >>

Next ==
  \/ ParseArgs
  \/ CheckGifsicle
  \/ PlanGrid
  \/ LoadInputImages
  \/ ClaudeKey
  \/ ClaudeFetch
  \/ ExecuteFrameScript
  \/ ConvertSvgs
  \/ GeminiKey
  \/ GeminiFetch
  \/ SliceGrid
  \/ MakeTmpDir
  \/ WriteFrameFiles
  \/ RunGifsicle
  \/ DisplayInTerminal
  \/ Cleanup

Spec == Init /\ [][Next]_vars

\* the run up to the end of planning, for every frame count
NextPlan ==
  \/ ParseAnyFrames
  \/ CheckGifsicle
  \/ PlanGrid

SpecPlan == Init /\ [][NextPlan]_vars

\* ------------------------------------------- bestAspectRatio on its own
\* the arguments tried: a grid, a scale factor and a frame aspect W : H
AspectInputs ==
  { [cols |-> c, rows |-> r, k |-> k, ar |-> <<w, h>>, label |-> "",
     scaled |-> ""] :
      c \in 1..MaxGrid, r \in 1..MaxGrid, k \in 1..MaxScale,
      w \in 1..MaxAspect, h \in 1..MaxAspect }

InitAspect ==
  /\ aspect \in AspectInputs
  /\ pc = "args"
  /\ exitCode = Null
  /\ trace = <<>>
  /\ numFrames = 0
  /\ provider = ""
  /\ frameAR = <<0, 0>>
  /\ debug = FALSE
  /\ plan = NoPlan
  /\ suggest = <<>>
  /\ proc = NoProc
  /\ svgs = <<>>
  /\ scriptFile = FALSE
  /\ img = NoImg
  /\ frames = <<>>
  /\ tmpDir = FALSE
  /\ frameFiles = <<>>
  /\ outputFile = FALSE
  /\ pending = FALSE
  /\ geom = NoGeom
  /\ recon = NoRecon

\* the function is called on the grid and on the grid scaled by k
CallBestAspectRatio ==
  /\ aspect.label = ""
  /\ aspect' =
       [aspect EXCEPT
          !.label = bestAspectRatio(aspect.cols, aspect.rows, aspect.ar),
          !.scaled = bestAspectRatio(aspect.k * aspect.cols,
                                     aspect.k * aspect.rows, aspect.ar)]
  /\ UNCHANGED << pc, exitCode, trace, numFrames, provider, frameAR, debug,
                  plan, suggest, proc, svgs, scriptFile, img, frames, tmpDir,
                  frameFiles, outputFile, pending, geom, recon >>

NextAspect == CallBestAspectRatio

SpecAspect == InitAspect /\ [][NextAspect]_vars

\* ------------------------- the frame reconciler of the multi-pass variant
\* widths and heights sharp's trim is taken to leave: the small ones, and the
\* 10 and 20 of a small cell beside a large one
TrimSizes == (1..MaxTrim) \cup {10, 20}

\* the raw cells all have the size of the extract call
RawSize == CHOOSE s \in TrimSizes : \A t \in TrimSizes : t <= s

\* the running maximum is replaced by the size of the cell at hand
lastSize(m, size) == size

\* maxTrimW = Math.max(maxTrimW, info.width)
growMax(m, size) == Max(m, size)

\* Math.round((maxTrimW - t.width) / 2)
centerOffset(canvas, size) == RoundDiv(canvas - size, 2)

\* one operation of sharp, as the reconciler issues it
ReconOp(op, i, cw, ch, l, t, w, h) ==
  [op |-> op, i |-> i, canvasW |-> cw, canvasH |-> ch, left |-> l, top |-> t,
   width |-> w, height |-> h]

InitRecon ==
  /\ \E n \in 0..MaxCells :
       recon = [NoRecon EXCEPT
                  !.pc = "run",
                  !.rawFrames = [i \in 1..n |->
                                   [width |-> RawSize, height |-> RawSize]]]
  /\ pc = "args"
  /\ exitCode = Null
  /\ trace = <<>>
  /\ numFrames = 0
  /\ provider = ""
  /\ frameAR = <<0, 0>>
  /\ debug = FALSE
  /\ plan = NoPlan
  /\ suggest = <<>>
  /\ proc = NoProc
  /\ svgs = <<>>
  /\ scriptFile = FALSE
  /\ img = NoImg
  /\ frames = <<>>
  /\ tmpDir = FALSE
  /\ frameFiles = <<>>
  /\ outputFile = FALSE
  /\ pending = FALSE
  /\ geom = NoGeom
  /\ aspect = NoAspect

ReconUnchanged ==
  UNCHANGED << pc, exitCode, trace, numFrames, provider, frameAR, debug, plan,
               suggest, proc, svgs, scriptFile, img, frames, tmpDir,
               frameFiles, outputFile, pending, geom, aspect >>

\* one turn of the trim loop: sharp(raw).trim(), push, the two maxima
ReconTrim ==
  /\ recon.pc = "run"
  /\ Len(recon.trimmed) < Len(recon.rawFrames)
  /\ LET i == Len(recon.trimmed) + 1
     IN  \E ok \in BOOLEAN, w, h \in TrimSizes :
           /\ w <= recon.rawFrames[i].width
           /\ h <= recon.rawFrames[i].height
           /\ recon' =
                IF ok
                  THEN [recon EXCEPT
                          !.trimmed = Append(@, [width |-> w, height |-> h]),
                          !.maxTrimW = growMax(@, w),
                          !.maxTrimH = growMax(@, h),
                          !.ops = Append(@, ReconOp("trim", i, 0, 0, 0, 0, w, h))]
                  ELSE [recon EXCEPT !.pc = "crashed"]
  /\ ReconUnchanged

\* a cell is centred as soon as it is trimmed, on the maximum so far
ReconCompositeEager ==
  /\ recon.pc = "run"
  /\ recon.composited = <<>>
  /\ Len(recon.frames) < Len(recon.trimmed)
  /\ LET i == Len(recon.frames) + 1
         t == recon.trimmed[i]
         c == ReconOp("composite", i, recon.maxTrimW, recon.maxTrimH,
                      centerOffset(recon.maxTrimW, t.width),
                      centerOffset(recon.maxTrimH, t.height),
                      t.width, t.height)
     IN  recon' = [recon EXCEPT !.composited = << c >>,
                                !.ops = Append(@, c)]
  /\ ReconUnchanged

\* the first half of a turn of the second loop: the canvas of maxTrimW x
\* maxTrimH is created and the trimmed cell is composited onto it
ReconComposite ==
  /\ recon.pc = "run"
  /\ Len(recon.trimmed) = Len(recon.rawFrames)
  /\ recon.composited = <<>>
  /\ Len(recon.frames) < Len(recon.trimmed)
  /\ LET i == Len(recon.frames) + 1
         t == recon.trimmed[i]
         c == ReconOp("composite", i, recon.maxTrimW, recon.maxTrimH,
                      centerOffset(recon.maxTrimW, t.width),
                      centerOffset(recon.maxTrimH, t.height),
                      t.width, t.height)
     IN  \E ok \in BOOLEAN :
           recon' = IF ok
                      THEN [recon EXCEPT !.composited = << c >>,
                                         !.ops = Append(@, c)]
                      ELSE [recon EXCEPT !.pc = "crashed"]
  /\ ReconUnchanged

\* the second half: the composited canvas is resized and pushed
ReconResize ==
  /\ recon.pc = "run"
  /\ recon.composited # <<>>
  /\ LET c == recon.composited[1]
     IN  \E ok \in BOOLEAN :
           recon' = IF ok
                      THEN [recon EXCEPT
                              !.composited = <<>>,
                              !.frames = Append(@, c),
                              !.ops = Append(@, [c EXCEPT !.op = "resize"])]
                      ELSE [recon EXCEPT !.pc = "crashed"]
  /\ ReconUnchanged

NextRecon ==
  \/ ReconTrim
  \/ ReconComposite
  \/ ReconResize

SpecRecon == InitRecon /\ [][NextRecon]_vars

\* ===================================================================== claims
LastEvent == IF trace = <<>> THEN Ev("", 0) ELSE trace[Len(trace)]
Before(a, b) ==
  \E i, j \in 1..Len(trace) : i < j /\ trace[i].ev = a /\ trace[j].ev = b

\* the divisors r of n with 2 <= r and r * r <= n
SquareDivisors(n) == { r \in 2..n : r * r <= n /\ n % r = 0 }

\* C1: for every accepted frame count n, the planned grid has
\* columns * rows = n, rows is the largest r >= 2 with r * r <= n that
\* divides n, and the grid is n x 1 when there is no such r.
C1_GridLayout ==
  plan # NoPlan =>
    /\ numFrames \in MinFrames..MaxFrames
    /\ plan.cols * plan.rows = numFrames
    /\ IF SquareDivisors(numFrames) = {}
         THEN plan.rows = 1 /\ plan.cols = numFrames
         ELSE /\ plan.rows \in SquareDivisors(numFrames)
              /\ \A d \in SquareDivisors(numFrames) : d <= plan.rows

\* 12 frames are laid out 4 x 3, not 6 x 2
C1_Witness == numFrames = 12 /\ plan.cols = 4 /\ plan.rows = 3

C3_ExactlyRequestedCount ==
  Has("frames generated") => Len(frames) = numFrames

\* C3 as amended: a run that reaches assembly does so with the frames the
\* provider produced: the m >= 1 elements of the script's array on the
\* procedural path, min(numFrames, columns * detectedRows) cells on the grid
\* path; that is numFrames when the script printed numFrames elements,
\* respectively when columns * detectedRows >= numFrames, and never more
\* than numFrames on the grid path.
C3_FrameCount ==
  Has("frames generated") =>
    IF provider = "claude"
      THEN /\ Len(frames) = Len(proc.items)
           /\ Len(frames) >= 1
      ELSE /\ Len(frames) =
                Min(numFrames,
                    plan.cols * detectRows(img.w, img.h, plan.cols, frameAR))
           /\ Len(frames) <= numFrames

\* the grid path reaches assembly with fewer frames than requested, the
\* image holding more cells than requested having been cut at numFrames
C3_Witness ==
  /\ pc = "mkdir" /\ provider = "gemini"
  /\ numFrames = 4 /\ Len(frames) = 2
  /\ detectRows(img.w, img.h, plan.cols, frameAR) = 1

\* the checks that come before the provider call, by the event each leaves
\* when it passes
PreChecks ==
  { "args valid", "gifsicle found", "grid accepted",
    "Generating animation...", "api key present" }

\* the diagnoses of the checks that come before the provider call
PreCheckErrors ==
  { "Error: prompt is required", "Error: frames must be between 2 and 64",
    "Error: delay must be between 10 and 10000 ms",
    "Error: size must be in WxH format", "Error: unsupported provider",
    "Error: unknown resolution",
    "Error: temperature must be between 0.0 and 2.0",
    "Error: colors must be between 2 and 256",
    "Error: aspect must be in W:H format",
    "Error: gifsicle is required but not found",
    "Error: frames can't form a clean grid",
    "Error: input file not found", "Error: unsupported image format",
    "Error: API key environment variable is required" }

\* C4: a provider request is made only after the argument validation, the
\* encoder check, the grid policy, the input files and the credential check
\* have all passed; a run one of them fails ends with status 1 at that check
\* and makes no request.
C4_ChecksBeforeProviderCall ==
  /\ Has("fetch") => \A c \in PreChecks : Before(c, "fetch")
  /\ \A i \in 1..Len(trace) :
       trace[i].ev \in PreCheckErrors =>
         /\ i = Len(trace) /\ pc = "done" /\ exitCode = 1
         /\ ~Has("fetch")

\* the request has been made, on the grid path, for a count the policy
\* accepts
C4_Witness ==
  /\ Has("fetch") /\ provider = "gemini" /\ pc = "slice"
  /\ plan.rows > 1

\* an element that is a string starting with "<svg" once trimmed
WellFormed(e) == e \in { SvgDoc, PaddedSvg }

\* the child exited with status 0 and printed a non-empty JSON array
PrintedArray == proc.kind = "array" /\ proc.exitCode = 0 /\ proc.items # <<>>

\* the script ran and did not deliver frames: it failed or timed out, or
\* printed something other than a non-empty array of well-formed frames
ScriptFailed ==
  /\ proc.kind # "none"
  /\ \/ proc.exitCode # 0
     \/ proc.kind # "array"
     \/ proc.items = <<>>
     \/ \E i \in 1..Len(proc.items) : ~WellFormed(proc.items[i])

\* the ways generation fails, by the event each leaves
GenerationErrors ==
  { "uncaught: fetch", "Error: API returned an error status",
    "Error: no text in Claude API response",
    "Error: could not extract code from Claude's response",
    "Error: no image data in API response",
    "Error: generated code failed",
    "Error: generated code did not output valid JSON",
    "Error: expected array of SVG strings",
    "Error: frame is not a valid SVG string",
    "uncaught: sharp", "throws: sharp" }

\* C5: the encoder runs, and the output file exists, only after all frames
\* were generated and every one of them was written to its file; a run in
\* which generation or a rasterization failed never runs the encoder and
\* has no output file.
C5_NoPartialArtifact ==
  /\ (Has("gifsicle") \/ outputFile) =>
       /\ Before("frames generated", "gifsicle")
       /\ trace[Index("gifsicle")].arg = Len(frames)
  /\ (\E e \in GenerationErrors : Has(e)) =>
       ~Has("gifsicle") /\ ~outputFile
  /\ ScriptFailed =>
       pc = "done" /\ exitCode = 1 /\ ~Has("gifsicle") /\ ~outputFile

\* the write of a frame file failed after generation succeeded, and the run
\* has ended
C5_Witness ==
  /\ pc = "done" /\ Has("throws: sharp") /\ Has("frames generated")
  /\ ~outputFile /\ exitCode = 1

\* C6: in every terminal state reached after the frame directory was
\* created, the directory and the frame files in it are gone.
C6_TmpDirRemoved ==
  (pc = "done" /\ Has("mkdir")) => ~tmpDir /\ frameFiles = <<>>

\* the encoder failed after the frame files were written, and the run has
\* ended
C6_Witness ==
  /\ pc = "done" /\ Has("frame files written") /\ Has("throws: gifsicle")
  /\ ~tmpDir

\* C7: when the array printed by a script that exited normally holds an
\* element that is not a string starting with "<svg" after trimming, the run
\* ends with "frame i is not a valid SVG string", i the smallest 0-based
\* index of such an element, and no frames are returned.
C7_FirstInvalidFrameRejected ==
  (PrintedArray /\ \E i \in 1..Len(proc.items) : ~WellFormed(proc.items[i])) =>
    /\ pc = "done" /\ exitCode = 1
    /\ LastEvent.ev = "Error: frame is not a valid SVG string"
    /\ ~WellFormed(proc.items[LastEvent.arg + 1])
    /\ \A i \in 1..LastEvent.arg : WellFormed(proc.items[i])
    /\ svgs = <<>> /\ frames = <<>>

\* the array ["<svg/>", 42], also with white space around the markup, is
\* rejected at index 1
C7_Witness ==
  /\ proc.kind = "array" /\ proc.exitCode = 0
  /\ proc.items \in { << SvgDoc, Number42 >>, << PaddedSvg, Number42 >> }
  /\ LastEvent = Ev("Error: frame is not a valid SVG string", 1)

\* the child exited with status 0 and printed an array of well-formed
\* frames only
AllWellFormed ==
  /\ proc.kind = "array" /\ proc.exitCode = 0
  /\ \A i \in 1..Len(proc.items) : WellFormed(proc.items[i])

\* the count warning was printed for m frames and the m frames were returned
WarnedAndReturned ==
  /\ Has("Warning: got frames")
  /\ trace[Index("Warning: got frames")].arg = Len(proc.items)
  /\ svgs = proc.items
  /\ \A e \in GenerationErrors \ { "uncaught: sharp", "throws: sharp" } :
       ~Has(e)
  /\ Has("frames generated") => Len(frames) = Len(proc.items)

\* C8 as stated: for every array of m well-formed frames, m different from
\* the requested count, the generator warns, does not abort and returns the
\* m frames.
C8_AnyMismatchProceeds ==
  (AllWellFormed /\ Len(proc.items) # numFrames) => WarnedAndReturned

\* C8 as amended: the same for every m >= 1; the empty array is a fatal
\* error.
C8_NonEmptyMismatchProceeds ==
  /\ (AllWellFormed /\ Len(proc.items) # numFrames /\ Len(proc.items) >= 1)
       => WarnedAndReturned
  /\ (AllWellFormed /\ Len(proc.items) = 0) =>
       /\ pc = "done" /\ exitCode = 1
       /\ LastEvent.ev = "Error: expected array of SVG strings"
       /\ ~Has("Warning: got frames")

\* three frames where two were requested reach assembly
C8_Witness ==
  /\ AllWellFormed /\ numFrames = 2 /\ Len(proc.items) = 3
  /\ pc = "mkdir" /\ Len(frames) = 3

\* C9: when the child times out or exits with a non-zero status the run ends
\* with the "generated code failed" error whatever the child printed:
\* nothing of its output is parsed, checked, warned about or used as frames.
C9_FailedScriptIsFatal ==
  (proc.kind # "none" /\ proc.exitCode # 0) =>
    /\ pc = "done" /\ exitCode = 1
    /\ LastEvent.ev = "Error: generated code failed"
    /\ trace[Len(trace) - 1].ev = "spawn"
    /\ svgs = <<>> /\ frames = <<>>
    /\ ~Has("gifsicle") /\ ~outputFile

\* the child printed exactly the requested frames, all well formed, and was
\* killed on the timeout
C9_Witness ==
  /\ proc.exitCode = Null /\ proc.kind = "array"
  /\ Len(proc.items) = numFrames
  /\ \A i \in 1..Len(proc.items) : WellFormed(proc.items[i])
  /\ pc = "done"

\* C10: once the encoder has written the output file the run ends with
\* status 0, whether or not the display in the terminal succeeded.
C10_DisplayNeverFatal ==
  (pc = "done" /\ outputFile) => exitCode = 0
\* C11: the frames reach the encoder in playback order.  On the grid path
\* the i-th frame (from 0) is the cell at row i div columns, column
\* i mod columns, extracted at that cell's place in the image, and at most
\* numFrames cells are taken; on the procedural path it is the i-th element
\* of the script's array.  The i-th frame file holds the i-th frame, and the
\* encoder is given exactly these files in this order.
C11_PlaybackOrder ==
  /\ Has("frames generated") =>
       \A i \in 1..Len(frames) :
         IF provider = "gemini"
           THEN /\ frames[i].row = (i - 1) \div plan.cols
                /\ frames[i].col = (i - 1) % plan.cols
                /\ frames[i].left = frames[i].col * geom.frameW + geom.insetX
                /\ frames[i].top = frames[i].row * geom.frameH + geom.insetY
                /\ Len(frames) <= numFrames
           ELSE /\ frames[i].idx = i - 1
                /\ frames[i].src = proc.items[i]
  /\ \A i \in 1..Len(frameFiles) :
       frameFiles[i].name = i - 1 /\ frameFiles[i].content = frames[i]
  /\ Has("gifsicle") =>
       LET files == trace[Index("gifsicle")].files
       IN  /\ Len(files) = Len(frames)
           /\ \A i \in 1..Len(files) :
                files[i].name = i - 1 /\ files[i].content = frames[i]

\* four frames were requested as 2 x 2, the image holds three rows: the
\* encoder got the first four cells, the fourth being row 1, column 1
C11_Witness ==
  /\ Has("gifsicle") /\ provider = "gemini" /\ numFrames = 4
  /\ geom.actualRows = 3 /\ Len(frames) = 4
  /\ frames[4].row = 1 /\ frames[4].col = 1
\* the image has exactly the requested geometry: columns x rows cells of
\* whole-pixel size whose width : height is the requested frame aspect
ExactGeometry ==
  /\ geom # NoGeom
  /\ img.w % plan.cols = 0 /\ img.h % plan.rows = 0
  /\ (img.w \div plan.cols) * frameAR[2] = (img.h \div plan.rows) * frameAR[1]

\* C12: on an image of exactly the requested geometry the detected row count
\* is the requested one, no drift warning is printed and the cells are cut
\* with the requested rows: cell height imgH / rows, numFrames frames.  With
\* 4 frames, aspect 1:1 and a 256 x 256 image: 2 columns, 2 rows, 2 detected
\* rows, 4 frames.
C12_NoDriftOnExactGeometry ==
  /\ ExactGeometry =>
       /\ geom.detectedRows = plan.rows
       /\ geom.actualRows = plan.rows
       /\ ~Has("Warning: detected rows")
       /\ geom.frameW = img.w \div plan.cols
       /\ geom.frameH = img.h \div plan.rows
       /\ Has("frames generated") =>
            /\ Len(frames) = numFrames
            /\ \A i \in 1..Len(frames) :
                 frames[i].top = ((i - 1) \div plan.cols) * (img.h \div plan.rows)
                                   + geom.insetY
  /\ (geom # NoGeom /\ numFrames = 4 /\ frameAR = <<1, 1>>
        /\ img = [w |-> 256, h |-> 256]) =>
       /\ plan.cols = 2 /\ plan.rows = 2 /\ geom.detectedRows = 2
       /\ Has("frames generated") => Len(frames) = 4

\* the 256 x 256 sheet of the 2 x 2 request has been cut into 4 frames
C12_Witness ==
  /\ pc = "mkdir" /\ numFrames = 4 /\ frameAR = <<1, 1>>
  /\ img = [w |-> 256, h |-> 256]
  /\ ExactGeometry /\ Len(frames) = 4
\* the image is one row taller than requested at the expected cell height:
\* imgH = (rows + 1) * (imgW / cols) / frameAR, and it has been measured
DriftByOneRow ==
  /\ geom # NoGeom
  /\ img.h * plan.cols * frameAR[1] = (plan.rows + 1) * img.w * frameAR[2]

\* the sharp calls of the slicing loop accept every region of the frames asked
AllExtractable ==
  \A i \in 0..(Min(numFrames, geom.cols * geom.actualRows) - 1) :
    extractable(region(geom, i \div geom.cols, i % geom.cols), img.w, img.h)

\* C13: when the image height is that of rows + 1 rows of the expected cell
\* height, rows + 1 rows are detected, the drift warning is printed, the run
\* goes on to the slicing, and the cell height, the inset, the offsets and the
\* row bound all come from rows + 1, none from the requested rows.
C13_DriftAdopted ==
  DriftByOneRow =>
    LET r1 == plan.rows + 1
        fh == img.h \div r1
    IN  /\ geom.detectedRows = r1
        /\ geom.actualRows = r1
        /\ Has("Warning: detected rows")
        /\ trace[Index("Warning: detected rows")].arg = r1
        /\ geom.frameH = fh
        /\ geom.insetY = Max(1, RoundDiv(fh * InsetPercent, 100))
        /\ LastEvent.ev \in {"Warning: detected rows", "uncaught: sharp"}
             => ~AllExtractable
        /\ AllExtractable => Has("frames generated")
        /\ Has("frames generated") =>
             /\ Before("Warning: detected rows", "frames generated")
             /\ Len(frames) = numFrames
             /\ \A i \in 1..Len(frames) :
                  /\ frames[i].row < r1
                  /\ frames[i].top = frames[i].row * fh + geom.insetY
                  /\ frames[i].height = fh - 2 * geom.insetY

\* a 2 x 2 request answered by a sheet of 3 rows, cut into its 4 frames
C13_Witness ==
  /\ DriftByOneRow /\ pc = "mkdir" /\ plan.rows = 2 /\ geom.actualRows = 3
  /\ Has("Warning: detected rows") /\ Len(frames) = 4
  /\ img.h \div 3 # img.h \div 2
\* C14: the "can't form a clean grid" rejection happens on the gemini path
\* only.  With provider claude every count in 2..64 passes the grid
\* validation, the primes 5, 7 and 61 included: the plan is accepted, nothing
\* is suggested and the run goes on to the input images.
C14_RejectionOnGridPathOnly ==
  /\ Has("Error: frames can't form a clean grid") => provider = "gemini"
  /\ (provider = "claude" /\ plan # NoPlan) =>
       /\ numFrames \in MinFrames..MaxFrames
       /\ Has("grid accepted")
       /\ suggest = <<>>
       /\ plan.aspectRatio # ""
       /\ ~(pc = "done" /\ exitCode = 1
              /\ LastEvent.ev = "Error: frames can't form a clean grid")

\* 61 frames, a 61 x 1 layout, accepted for claude
C14_Witness ==
  /\ provider = "claude" /\ numFrames = 61
  /\ plan # NoPlan /\ plan.rows = 1 /\ plan.cols = 61
  /\ Has("grid accepted") /\ pc = "inputs"
\* C15: bestAspectRatio is scale-invariant: for positive cols, rows, k and a
\* positive rational frame aspect a, bestAspectRatio(cols, rows, a) and
\* bestAspectRatio(k * cols, k * rows, a) return the same label.
C15_ScaleInvariant ==
  aspect.label # "" =>
    /\ aspect.cols >= 1 /\ aspect.rows >= 1 /\ aspect.k >= 1
    /\ aspect.ar[1] >= 1 /\ aspect.ar[2] >= 1
    /\ aspect.scaled = aspect.label

\* a 3 x 2 grid of 2:3 frames and the same grid three times as large both
\* negotiate 1:1
C15_Witness ==
  /\ aspect.cols = 3 /\ aspect.rows = 2 /\ aspect.k = 3
  /\ aspect.ar = <<2, 3>>
  /\ aspect.label = "1:1" /\ aspect.scaled = "1:1"
\* the largest of a non-empty sequence of numbers
SeqMax(q) == CHOOSE m \in { q[j] : j \in 1..Len(q) } :
               \A j \in 1..Len(q) : q[j] <= m
TrimmedW == [j \in 1..Len(recon.trimmed) |-> recon.trimmed[j].width]
TrimmedH == [j \in 1..Len(recon.trimmed) |-> recon.trimmed[j].height]
Composites == { p \in 1..Len(recon.ops) : recon.ops[p].op = "composite" }

\* C16: the reconciler's canvas is the maximum trimmed width by the maximum
\* trimmed height over all cells; a cell of w x h is placed at
\* (round((canvasW - w) / 2), round((canvasH - h) / 2)), halves rounding up;
\* the placement lies inside the canvas on both axes, odd differences
\* included; with cells 10 x 10 and 20 x 20 the canvas is 20 x 20 and the
\* small cell is at (5, 5).
C16_CentredOnMaxCanvas ==
  \A p \in Composites :
    LET c == recon.ops[p]
        t == recon.trimmed[c.i]
    IN  /\ c.canvasW = SeqMax(TrimmedW) /\ c.canvasH = SeqMax(TrimmedH)
        /\ c.width = t.width /\ c.height = t.height
        /\ 2 * c.left - (c.canvasW - c.width) \in {0, 1}
        /\ 2 * c.top - (c.canvasH - c.height) \in {0, 1}
        /\ c.left >= 0 /\ c.left + c.width <= c.canvasW
        /\ c.top >= 0 /\ c.top + c.height <= c.canvasH
        /\ (recon.trimmed = << [width |-> 10, height |-> 10],
                               [width |-> 20, height |-> 20] >> /\ c.i = 1)
             => c.canvasW = 20 /\ c.canvasH = 20 /\ c.left = 5 /\ c.top = 5

\* the 10 x 10 cell has been composited at (5, 5) of the 20 x 20 canvas
C16_Witness ==
  /\ recon.trimmed = << [width |-> 10, height |-> 10],
                        [width |-> 20, height |-> 20] >>
  /\ \E p \in Composites :
       recon.ops[p] = ReconOp("composite", 1, 20, 20, 5, 5, 10, 10)
\* the target cols * a / rows of the call recorded in aspect, as a fraction
TargetNum == aspect.cols * aspect.ar[1]
TargetDen == aspect.rows * aspect.ar[2]

\* exp |ln(value_i / target)| = max(value_i / target, target / value_i)
FarNum(i) == Max(ASPECT_RATIOS[i].num * TargetDen, ASPECT_RATIOS[i].den * TargetNum)
FarDen(i) == Min(ASPECT_RATIOS[i].num * TargetDen, ASPECT_RATIOS[i].den * TargetNum)

\* entry i is strictly closer to the target than entry j in log distance
StrictlyCloser(i, j) == FarNum(i) * FarDen(j) < FarNum(j) * FarDen(i)

\* C17: bestAspectRatio(cols, rows, a) returns the label of an entry of the
\* list (1:1, 16:9, 9:16, 4:3, 3:4) whose distance |ln(value / target)| to
\* target = cols * a / rows is minimal: no entry is strictly closer than the
\* one returned, and every earlier entry is strictly farther (the earlier
\* entry wins a tie).
C17_LogNearestEntry ==
  aspect.label # "" =>
    \E j \in 1..Len(ASPECT_RATIOS) :
      /\ ASPECT_RATIOS[j].label = aspect.label
      /\ \A i \in 1..Len(ASPECT_RATIOS) : ~StrictlyCloser(i, j)
      /\ \A i \in 1..(j - 1) : StrictlyCloser(j, i)

\* target 7/6 lies midway between 1 and 4/3 on the linear scale and nearer
\* to 4/3 on the log scale: 4:3 is returned
C17_Witness ==
  /\ aspect.cols = 7 /\ aspect.rows = 6 /\ aspect.ar = <<1, 1>>
  /\ aspect.label = "4:3"
  /\ StrictlyCloser(4, 1)
\* a count planning accepts on the grid path: it has a layout of at least
\* two rows, or it is at most 3
Acceptable(m) == SquareDivisors(m) # {} \/ m <= MaxStripCols
AcceptableBelow == { m \in MinFrames..(numFrames - 1) : Acceptable(m) }
AcceptableAbove == { m \in (numFrames + 1)..SuggestMax : Acceptable(m) }

\* C18: on rejection of n the alternatives printed are the nearest
\* acceptable count below n (the largest m < n, m >= 2) and the nearest
\* acceptable count above n (the smallest m > n, m <= 16): each one is a
\* count the policy accepts, and no acceptable count lies strictly between n
\* and a suggestion.
C18_NearestAcceptable ==
  Has("Error: frames can't form a clean grid") =>
    /\ \A i \in 1..Len(suggest) :
         LET m == suggest[i]
         IN  /\ Acceptable(m)
             /\ ~GridRejected(provider, gridLayout(m))
             /\ m # numFrames
             /\ m < numFrames =>
                  /\ m >= MinFrames
                  /\ \A k \in (m + 1)..(numFrames - 1) : ~Acceptable(k)
             /\ m > numFrames =>
                  /\ m <= SuggestMax
                  /\ \A k \in (numFrames + 1)..(m - 1) : ~Acceptable(k)
    /\ AcceptableBelow # {} => \E i \in 1..Len(suggest) : suggest[i] < numFrames
    /\ AcceptableAbove # {} => \E i \in 1..Len(suggest) : suggest[i] > numFrames
    /\ Len(suggest) <= 2
    /\ Len(suggest) = 2 => suggest[1] < numFrames /\ suggest[2] > numFrames

\* 13 frames are refused with 12 and 14 as the alternatives
C18_Witness ==
  /\ Has("Error: frames can't form a clean grid")
  /\ numFrames = 13 /\ suggest = << 12, 14 >>
Trims == { p \in 1..Len(recon.ops) : recon.ops[p].op = "trim" }
Resizes == { p \in 1..Len(recon.ops) : recon.ops[p].op = "resize" }

\* C19: the reconciler's operations come in a fixed order.  Every cell is
\* trimmed, and the maximum trimmed width and height are final, before the
\* first composite; each frame's composite onto the max-size canvas is an
\* operation of its own that is over before that frame's resize starts; no
\* frame is resized without having been composited; the canvas size is the
\* same for all frames.
C19_TrimAllThenCompositeThenResize ==
  /\ \A p \in Composites :
       /\ Len(recon.trimmed) = Len(recon.rawFrames)
       /\ \A q \in Trims : q < p
       /\ \A j \in 1..Len(recon.rawFrames) : \E q \in Trims : recon.ops[q].i = j
       /\ recon.ops[p].canvasW = recon.maxTrimW
       /\ recon.ops[p].canvasH = recon.maxTrimH
       /\ recon.maxTrimW = SeqMax(TrimmedW)
       /\ recon.maxTrimH = SeqMax(TrimmedH)
  /\ \A p \in Resizes :
       /\ p > 1
       /\ recon.ops[p - 1] = [recon.ops[p] EXCEPT !.op = "composite"]
  /\ \A p, q \in Composites :
       /\ recon.ops[p].canvasW = recon.ops[q].canvasW
       /\ recon.ops[p].canvasH = recon.ops[q].canvasH
       /\ p < q => \E r \in Resizes : p < r /\ r < q
  /\ \A i \in 1..Len(recon.frames) :
       \E p \in Composites, r \in Resizes :
         /\ p < r /\ recon.ops[p].i = i /\ recon.ops[r].i = i
         /\ recon.frames[i] = recon.ops[p]

\* two cells of different trimmed sizes: trim, trim, composite, resize,
\* composite, resize
C19_Witness ==
  /\ Len(recon.rawFrames) = 2 /\ Len(recon.frames) = 2
  /\ recon.trimmed[1].width < recon.trimmed[2].width
  /\ [p \in 1..Len(recon.ops) |-> recon.ops[p].op]
       = << "trim", "trim", "composite", "resize", "composite", "resize" >>
\* the regions the slicing loop computes from the measured geometry, in order
Regions ==
  [i \in 1..Min(numFrames, geom.cols * geom.actualRows) |->
     region(geom, (i - 1) \div geom.cols, (i - 1) % geom.cols)]

\* region a lies inside the rectangle at (l, t) of size w x h
Inside(a, l, t, w, h) ==
  /\ l <= a.left /\ a.left + a.width <= l + w
  /\ t <= a.top /\ a.top + a.height <= t + h

\* two regions share no pixel
Disjoint(a, b) ==
  \/ a.left + a.width <= b.left \/ b.left + b.width <= a.left
  \/ a.top + a.height <= b.top \/ b.top + b.height <= a.top

\* C20: for every image size and grid (imgW, imgH >= 1, columns >= 1,
\* actualRows >= 1) every region the slicer extracts has strictly positive
\* width and height, lies inside its own cell and inside the image, and the
\* regions of different cells do not overlap.
C20_RegionsPositiveInsideDisjoint ==
  (geom # NoGeom /\ geom.actualRows >= 1) =>
    /\ img.w >= 1 /\ img.h >= 1 /\ geom.cols >= 1
    /\ \A i \in 1..Len(Regions) :
         LET a == Regions[i]
         IN  /\ a.width > 0 /\ a.height > 0
             /\ a.width = geom.frameW - 2 * geom.insetX
             /\ a.height = geom.frameH - 2 * geom.insetY
             /\ Inside(a, a.col * geom.frameW, a.row * geom.frameH,
                       geom.frameW, geom.frameH)
             /\ Inside(a, 0, 0, img.w, img.h)
    /\ \A i, j \in 1..Len(Regions) : i # j => Disjoint(Regions[i], Regions[j])
\* the grid the slicer measured holds fewer cells than the frames asked for
ShortGrid == geom # NoGeom /\ geom.detectedRows * plan.cols < numFrames

\* C21: the grid slicer returns min(numFrames, columns * actualRows) frames,
\* actualRows being the detected row count: fewer than numFrames whenever
\* detectedRows * columns < numFrames, none at all when 0 rows are detected
\* (the image height is then divided by zero rows), and a short count
\* neither ends the run nor is warned about: the slicer returns and the run
\* goes on to the assembly.
C21_SlicerReturnsWhatTheGridHolds ==
  /\ geom # NoGeom => geom.actualRows = geom.detectedRows
  /\ (provider = "gemini" /\ Has("frames generated")) =>
       /\ Len(frames) = Min(numFrames, plan.cols * geom.detectedRows)
       /\ geom.detectedRows = 0 => frames = <<>> /\ geom.frameH = 0
  /\ ShortGrid =>
       /\ AllExtractable => Has("frames generated")
       /\ ~Has("Warning: got frames")
       /\ Has("frames generated") =>
            /\ Len(frames) < numFrames
            /\ trace[Index("frames generated") - 1]
                 = Ev("Warning: detected rows", geom.detectedRows)
            /\ pc = "mkdir" => exitCode = Null /\ LastEvent.ev = "frames generated"

\* an image so flat that 0 rows are detected: the slicer has returned no
\* frame and the run is about to create the frame directory
C21_Witness ==
  /\ ShortGrid /\ geom.detectedRows = 0 /\ img.h >= 1
  /\ Has("frames generated") /\ frames = <<>>
  /\ pc = "mkdir" /\ exitCode = Null
\* executeFrameScript has been left, by its return or by process.exit
ScriptStepLeft == Has("spawn")

\* C22: the temporary file of the generated script is removed on every way
\* out of executeFrameScript when debug is off (success, non-zero exit or
\* timeout, invalid JSON, wrong shape, invalid frame), the ways out through
\* process.exit(1) inside the try block included; with debug on it is kept.
C22_ScriptFileRemoved ==
  ScriptStepLeft =>
    /\ ~debug => ~scriptFile
    /\ debug => scriptFile
====
